---- MODULE Spec2Model ----
(***************************************************************************)
(* nyquist_lib (src/src/lib.rs): a playlist guarded by one mutex, a driver *)
(* thread (manager_thread) that starts the selected track and refreshes    *)
(* the elapsed time, a command thread (receiver_thread) that consumes an   *)
(* mpsc channel, and the Nyquist facade whose methods either lock the      *)
(* playlist or send on the channel.                                        *)
(*                                                                         *)
(* The audio engine (kira) is an external collaborator.  It is modelled by *)
(* the contract of spec.md section 6: open_stream(path) fails or reports a  *)
(* duration, a session is Playing, Paused or Stopped, pause and resume are *)
(* immediate, the position advances only while Playing and the session     *)
(* stops when the position reaches the duration.                           *)
(***************************************************************************)
EXTENDS Integers, Sequences, FiniteSets, TLC

VARIABLES
    playlist,     \* the Playlist behind Arc<Mutex<..>> (lib.rs 144-152)
    lock,         \* who holds the parking_lot mutex: "free", "manager"
    chan,         \* messages buffered in the mpsc channel, oldest first
    tx_alive,     \* the Nyquist handle (and with it the only Sender) exists
    rx_alive,     \* the Receiver exists (receiver_thread has not ended)
    mgrPc,        \* manager_thread: "lock", "yield", "open_failed", "play_failed"
    rcvPc,        \* receiver_thread: "recv", "handle", "done", "panicked"
    rcvCur,       \* the message receiver_thread took off the channel
    send_result,  \* what the last pause_playback / resume_playback returned
    enqueued,     \* history: the tracks of the completed add_to_playlist calls
    sent,         \* history: the messages whose send returned Ok
    applied,      \* history: the messages receiver_thread has matched on
    lastSet,      \* history: Some(v) after set_vol(v), None once something else wrote the volume
    pendingPause  \* history: a Pause was handled with a track selected and no session
                  \* yet, no Resume since, and the session is still to be created

vars == <<playlist, lock, chan, tx_alive, rx_alive, mgrPc, rcvPc, rcvCur, send_result,
          enqueued, sent, applied, lastSet, pendingPause>>

(* ------------------------------ bounds -------------------------------- *)

\* add_to_playlist calls in one behaviour
MaxQueue == 2
\* sends on the channel in one behaviour
MaxSends == 2
\* of these, the sends that are not pause_playback or resume_playback
MaxOther == 1

(* --------------------------- Option<T> -------------------------------- *)

None == <<>>
Some(x) == <<x>>
IsSome(o) == o # <<>>
Unwrap(o) == o[1]

(* ------------------------- tracks, engine ----------------------------- *)

\* Track.path values: two playable files and one the engine cannot open.
Tracks == {"a.mp3", "b.mp3", "/nonexistent"}

\* StreamingSoundData::from_file(path) is Ok
CanOpen(path) == path \in {"a.mp3", "b.mp3"}

\* sound_data.duration(), in ticks
EngineDuration(path) == IF path = "a.mp3" THEN 2 ELSE 1

\* manager.play(sound_data): a session at position 0, Playing, default gain
EnginePlay(path) ==
    [track |-> path, state |-> "Playing", position |-> 0, volume |-> 1]

\* handle.pause(Tween::default())
EnginePause(h) == IF h.state = "Playing" THEN [h EXCEPT !.state = "Paused"] ELSE h

\* handle.resume(Tween::default())
EngineResume(h) == IF h.state = "Paused" THEN [h EXCEPT !.state = "Playing"] ELSE h

\* handle.set_volume(gain, Tween::default())
EngineSetVolume(h, gain) == [h EXCEPT !.volume = gain]

\* the audio thread renders one tick of a Playing session; the session
\* stops when it reaches the end of the stream
EngineAdvance(h) ==
    LET p == h.position + 1
    IN  [h EXCEPT !.position = p,
                  !.state = IF p >= EngineDuration(h.track) THEN "Stopped" ELSE "Playing"]

(* ------------------------- messages (94-141) -------------------------- *)

\* MessageValue::none()
MessageValue_none == [float |-> None, int |-> None, string |-> None]

\* MessageValue::float(f)
MessageValue_float(f) == [float |-> Some(f), int |-> None, string |-> None]

Msg(kind, value) == [kind |-> kind, value |-> value]

(* ----------------------------- Playlist ------------------------------- *)

\* create_playlist()
create_playlist ==
    [queue            |-> <<>>,
     playing          |-> None,
     paused           |-> FALSE,
     current_duration |-> 0,
     current_time     |-> 0,
     current_volume   |-> 100,
     sound_handle     |-> None]

\* the driver has panicked on one of its unwraps
DriverDead == mgrPc \in {"open_failed", "play_failed"}

\* Nyquist::new(): the channel, the playlist, the two threads
Init ==
    /\ playlist = create_playlist
    /\ lock = "free"
    /\ chan = <<>>
    /\ tx_alive = TRUE
    /\ rx_alive = TRUE
    /\ mgrPc = "lock"
    /\ rcvPc = "recv"
    /\ rcvCur = Msg("None", MessageValue_none)
    /\ send_result = "none"
    /\ enqueued = <<>>
    /\ sent = <<>>
    /\ applied = <<>>
    /\ lastSet = None
    /\ pendingPause = FALSE

(* ------------------------------ facade -------------------------------- *)

\* a variant: the new track goes to the front of the queue
PushTrackFront(p, track) ==
    [p EXCEPT !.queue = <<track>> \o p.queue, !.playing = Some(track)]

\* a variant: the new track is selected only when nothing is selected yet
PushTrackKeepsSelection(p, track) ==
    [p EXCEPT !.queue = Append(p.queue, track),
              !.playing = IF IsSome(p.playing) THEN p.playing ELSE Some(track)]

\* the body of add_to_playlist under the lock
PushTrack(p, track) ==
    [p EXCEPT !.queue = Append(p.queue, track), !.playing = Some(track)]

\* Nyquist::add_to_playlist(track)
add_to_playlist(track) ==
    /\ tx_alive
    /\ lock = "free"
    /\ Len(enqueued) < MaxQueue
    /\ playlist' = PushTrack(playlist, track)
    /\ enqueued' = Append(enqueued, track)
    /\ UNCHANGED <<lock, chan, tx_alive, rx_alive, mgrPc, rcvPc, rcvCur, send_result,
                   sent, applied, lastSet, pendingPause>>

\* what list() returns: a clone of the queue
list_returns == playlist.queue

\* Nyquist::list(): a read under the lock
list ==
    /\ tx_alive
    /\ lock = "free"
    /\ UNCHANGED vars

\* a variant: the result of the send is swallowed
SendResultSwallowed == "Ok"

\* tx.send(m): Ok and buffered while the Receiver exists, Err(SendError) after
SendResult == IF rx_alive THEN "Ok" ELSE "Err"

Send(m) ==
    /\ tx_alive
    /\ Len(sent) < MaxSends
    /\ send_result' = SendResult
    /\ IF SendResult = "Ok"
          THEN chan' = Append(chan, m) /\ sent' = Append(sent, m)
          ELSE UNCHANGED <<chan, sent>>
    /\ UNCHANGED <<playlist, lock, tx_alive, rx_alive, mgrPc, rcvPc, rcvCur,
                   enqueued, applied, lastSet, pendingPause>>

\* Nyquist::pause_playback()
pause_playback == Send(Msg("PlaybackPause", MessageValue_none))

\* Nyquist::resume_playback()
resume_playback == Send(Msg("PlaybackResume", MessageValue_none))

\* what get_time() returns: (current_duration, current_time)
get_time_returns == <<playlist.current_duration, playlist.current_time>>

\* Nyquist::get_time(): a read under the lock
get_time ==
    /\ tx_alive
    /\ lock = "free"
    /\ UNCHANGED vars

\* what get_vol() returns
get_vol_returns == playlist.current_volume

\* Nyquist::get_vol(): a read under the lock
get_vol ==
    /\ tx_alive
    /\ lock = "free"
    /\ UNCHANGED vars

\* the volumes callers pass to set_vol
Volumes == {50}

\* a variant: the volume is not stored
StoreVolumeDropped(p, vol) == p

\* the body of set_vol under the lock
StoreVolume(p, vol) == [p EXCEPT !.current_volume = vol]

\* Nyquist::set_vol(vol)
set_vol(vol) ==
    /\ tx_alive
    /\ lock = "free"
    /\ playlist' = StoreVolume(playlist, vol)
    /\ lastSet' = Some(vol)
    /\ UNCHANGED <<lock, chan, tx_alive, rx_alive, mgrPc, rcvPc, rcvCur, send_result,
                   enqueued, sent, applied, pendingPause>>

\* the Nyquist value is dropped: its Sender goes with it, the threads are detached
drop_nyquist ==
    /\ tx_alive
    /\ tx_alive' = FALSE
    /\ UNCHANGED <<playlist, lock, chan, rx_alive, mgrPc, rcvPc, rcvCur, send_result,
                   enqueued, sent, applied, lastSet, pendingPause>>

(* -------------------------- manager_thread ---------------------------- *)

\* a variant: the guard is never dropped, the lock stays with the dead thread
LockLeftHeld == "manager"

\* what is left of the lock when a thread panics while holding the guard:
\* unwinding drops the parking_lot guard, which unlocks (no poisoning)
LockAfterPanic == "free"

\* the lock during thread::yield_now(): the guard lives to the end of the
\* loop body, so the yield runs with the lock held
LockAtYield == "manager"

\* the None arm (178-194) with a track selected; play_ok is the engine's
\* answer to manager.play
StartSelected(p, play_ok) ==
    LET path == Unwrap(p.playing)
        h0   == EnginePlay(path)
        h    == IF p.paused THEN EnginePause(h0) ELSE h0
    IN  IF ~CanOpen(path)
           THEN [pl |-> p, pc |-> "open_failed"]
        ELSE IF ~play_ok
           THEN [pl |-> [p EXCEPT !.current_duration = EngineDuration(path)],
                 pc |-> "play_failed"]
        ELSE [pl |-> [p EXCEPT !.current_duration = EngineDuration(path),
                               !.sound_handle = Some(h)],
              pc |-> "yield"]

\* a variant: the time left is stored instead of the time played
RefreshTimeRemaining(p) ==
    [p EXCEPT !.current_time = p.current_duration - Unwrap(p.sound_handle).position]

\* the Some arm (195-197)
RefreshTime(p) ==
    [p EXCEPT !.current_time = Unwrap(p.sound_handle).position]

\* a variant: a session whose track is no longer the selected one is swapped
ManagerIterationSwaps(p, play_ok) ==
    IF IsSome(p.sound_handle) /\ p.playing = Some(Unwrap(p.sound_handle).track)
       THEN [pl |-> RefreshTime(p), pc |-> "yield"]
    ELSE IF IsSome(p.playing)
       THEN StartSelected(p, play_ok)
    ELSE [pl |-> p, pc |-> "yield"]

\* one pass over the match of the loop body (176-198)
ManagerIteration(p, play_ok) ==
    IF IsSome(p.sound_handle)
       THEN [pl |-> RefreshTime(p), pc |-> "yield"]
    ELSE IF IsSome(p.playing)
       THEN StartSelected(p, play_ok)
    ELSE [pl |-> p, pc |-> "yield"]

\* playlist.lock() and the match (173-198)
manager_body ==
    /\ mgrPc = "lock"
    /\ lock = "free"
    /\ \E play_ok \in BOOLEAN :
          LET r == ManagerIteration(playlist, play_ok)
          IN  /\ playlist' = r.pl
              /\ mgrPc' = r.pc
              /\ lock' = IF r.pc = "yield" THEN LockAtYield ELSE LockAfterPanic
              /\ pendingPause' = IF IsSome(r.pl.sound_handle) THEN FALSE ELSE pendingPause
    /\ UNCHANGED <<chan, tx_alive, rx_alive, rcvPc, rcvCur, send_result,
                   enqueued, sent, applied, lastSet>>

\* a variant: the guard is leaked, the next iteration starts with the lock taken
manager_yield_keeps_guard ==
    /\ mgrPc = "yield"
    /\ mgrPc' = "lock"
    /\ UNCHANGED <<playlist, lock, chan, tx_alive, rx_alive, rcvPc, rcvCur, send_result,
                   enqueued, sent, applied, lastSet, pendingPause>>

\* thread::yield_now() and the end of the loop body, where the guard drops (201-202)
manager_yield ==
    /\ mgrPc = "yield"
    /\ mgrPc' = "lock"
    /\ lock' = IF lock = "manager" THEN "free" ELSE lock
    /\ UNCHANGED <<playlist, chan, tx_alive, rx_alive, rcvPc, rcvCur, send_result,
                   enqueued, sent, applied, lastSet, pendingPause>>

(* -------------------------- receiver_thread --------------------------- *)

\* the next item of rx.into_iter(): the oldest buffered message
NextMessage(c) == Head(c)

\* a variant: the message is read but stays in the channel
RemainingKeepsHead(c) == c

\* the channel after that message was taken
Remaining(c) == Tail(c)

\* rx.into_iter().next() returns a message (209)
receive ==
    /\ rcvPc = "recv"
    /\ chan # <<>>
    /\ rcvCur' = NextMessage(chan)
    /\ chan' = Remaining(chan)
    /\ rcvPc' = "handle"
    /\ UNCHANGED <<playlist, lock, tx_alive, rx_alive, mgrPc, send_result,
                   enqueued, sent, applied, lastSet, pendingPause>>

\* a variant: the loop ends as soon as the Sender is gone, buffered messages or not
receive_hangup_undrained ==
    /\ rcvPc = "recv"
    /\ ~tx_alive
    /\ rcvPc' = "done"
    /\ rx_alive' = FALSE
    /\ UNCHANGED <<playlist, lock, chan, tx_alive, mgrPc, rcvCur, send_result,
                   enqueued, sent, applied, lastSet, pendingPause>>

\* the iterator ends: every Sender is gone and nothing is buffered (208-209, 249)
receive_hangup ==
    /\ rcvPc = "recv"
    /\ chan = <<>>
    /\ ~tx_alive
    /\ rcvPc' = "done"
    /\ rx_alive' = FALSE
    /\ UNCHANGED <<playlist, lock, chan, tx_alive, mgrPc, rcvCur, send_result,
                   enqueued, sent, applied, lastSet, pendingPause>>

\* a variant: pause acts as a toggle
PlaybackPauseToggles(p) ==
    IF ~IsSome(p.sound_handle) THEN p
    ELSE IF Unwrap(p.sound_handle).state = "Playing"
       THEN [p EXCEPT !.sound_handle = Some(EnginePause(Unwrap(p.sound_handle))),
                      !.paused = TRUE]
    ELSE [p EXCEPT !.sound_handle = Some(EngineResume(Unwrap(p.sound_handle))),
                   !.paused = FALSE]

\* a variant: a Pause with no session is remembered in the paused flag
PlaybackPauseRemembers(p) ==
    IF IsSome(p.sound_handle) /\ Unwrap(p.sound_handle).state = "Playing"
       THEN [p EXCEPT !.sound_handle = Some(EnginePause(Unwrap(p.sound_handle))),
                      !.paused = TRUE]
    ELSE IF ~IsSome(p.sound_handle)
       THEN [p EXCEPT !.paused = TRUE]
    ELSE p

\* a variant: the session is paused but the paused flag is not set
PlaybackPauseForgetsFlag(p) ==
    IF IsSome(p.sound_handle) /\ Unwrap(p.sound_handle).state = "Playing"
       THEN [p EXCEPT !.sound_handle = Some(EnginePause(Unwrap(p.sound_handle)))]
       ELSE p

\* the Message::PlaybackPause arm (211-223)
PlaybackPause(p) ==
    IF IsSome(p.sound_handle) /\ Unwrap(p.sound_handle).state = "Playing"
       THEN [p EXCEPT !.sound_handle = Some(EnginePause(Unwrap(p.sound_handle))),
                      !.paused = TRUE]
       ELSE p

\* a variant: the session is resumed but the paused flag is left set
PlaybackResumeKeepsFlag(p) ==
    IF IsSome(p.sound_handle) /\ Unwrap(p.sound_handle).state = "Paused"
       THEN [p EXCEPT !.sound_handle = Some(EngineResume(Unwrap(p.sound_handle)))]
       ELSE p

\* the Message::PlaybackResume arm (224-236)
PlaybackResume(p) ==
    IF IsSome(p.sound_handle) /\ Unwrap(p.sound_handle).state = "Paused"
       THEN [p EXCEPT !.sound_handle = Some(EngineResume(Unwrap(p.sound_handle))),
                      !.paused = FALSE]
       ELSE p

\* the Message::EffectVolume arm (237-245), the payload holding a float
EffectVolume(p, value) ==
    IF IsSome(p.sound_handle)
       THEN [p EXCEPT !.current_volume = Unwrap(value.float),
                      !.sound_handle = Some(EngineSetVolume(Unwrap(p.sound_handle),
                                                            Unwrap(value.float)))]
       ELSE p

\* value.float.unwrap() is reached and panics (242)
EffectVolumePanics(p, value) == IsSome(p.sound_handle) /\ ~IsSome(value.float)

\* a message is matched once: the history of what the loop has handled
Handled(m) == applied' = Append(applied, m)

receiver_pause ==
    /\ rcvPc = "handle"
    /\ rcvCur.kind = "PlaybackPause"
    /\ lock = "free"
    /\ playlist' = PlaybackPause(playlist)
    /\ Handled(rcvCur)
    /\ pendingPause' = IF ~IsSome(playlist.sound_handle) /\ IsSome(playlist.playing)
                           THEN TRUE ELSE pendingPause
    /\ rcvPc' = "recv"
    /\ UNCHANGED <<lock, chan, tx_alive, rx_alive, mgrPc, rcvCur, send_result,
                   enqueued, sent, lastSet>>

receiver_resume ==
    /\ rcvPc = "handle"
    /\ rcvCur.kind = "PlaybackResume"
    /\ lock = "free"
    /\ playlist' = PlaybackResume(playlist)
    /\ Handled(rcvCur)
    /\ pendingPause' = IF ~IsSome(playlist.sound_handle) THEN FALSE ELSE pendingPause
    /\ rcvPc' = "recv"
    /\ UNCHANGED <<lock, chan, tx_alive, rx_alive, mgrPc, rcvCur, send_result,
                   enqueued, sent, lastSet>>

receiver_volume ==
    /\ rcvPc = "handle"
    /\ rcvCur.kind = "EffectVolume"
    /\ lock = "free"
    /\ Handled(rcvCur)
    /\ IF EffectVolumePanics(playlist, rcvCur.value)
          THEN \* the thread unwinds: the guard unlocks, the Receiver and what
               \* it still buffers are dropped
               /\ rcvPc' = "panicked"
               /\ rx_alive' = FALSE
               /\ chan' = <<>>
               /\ lock' = LockAfterPanic
               /\ UNCHANGED <<playlist, lastSet>>
          ELSE /\ playlist' = EffectVolume(playlist, rcvCur.value)
               /\ lastSet' = IF IsSome(playlist.sound_handle) THEN None ELSE lastSet
               /\ rcvPc' = "recv"
               /\ UNCHANGED <<lock, chan, rx_alive>>
    /\ UNCHANGED <<tx_alive, mgrPc, rcvCur, send_result, enqueued, sent, pendingPause>>

\* Message::None | Message::PlaylistUpdated => {} (246)
receiver_ignore ==
    /\ rcvPc = "handle"
    /\ rcvCur.kind \in {"None", "PlaylistUpdated"}
    /\ Handled(rcvCur)
    /\ rcvPc' = "recv"
    /\ UNCHANGED <<playlist, lock, chan, tx_alive, rx_alive, mgrPc, rcvCur, send_result,
                   enqueued, sent, lastSet, pendingPause>>

(* ------------------------------ engine -------------------------------- *)

\* the engine's audio thread plays the session on
engine_tick ==
    /\ IsSome(playlist.sound_handle)
    /\ Unwrap(playlist.sound_handle).state = "Playing"
    /\ playlist' = [playlist EXCEPT
                      !.sound_handle = Some(EngineAdvance(Unwrap(playlist.sound_handle)))]
    /\ UNCHANGED <<lock, chan, tx_alive, rx_alive, mgrPc, rcvPc, rcvCur, send_result,
                   enqueued, sent, applied, lastSet, pendingPause>>

(* --------------------------- specifications --------------------------- *)

Facade ==
    \/ \E track \in Tracks : add_to_playlist(track)
    \/ list
    \/ pause_playback
    \/ resume_playback
    \/ get_time
    \/ get_vol
    \/ \E vol \in Volumes : set_vol(vol)
    \/ drop_nyquist

\* the program as its facade drives it
Next ==
    \/ Facade
    \/ manager_body
    \/ manager_yield
    \/ receive
    \/ receive_hangup
    \/ receiver_pause
    \/ receiver_resume
    \/ engine_tick

Spec == Init /\ [][Next]_vars

\* the other messages the channel's item type admits: a holder of a Sender
\* clone sends an EffectVolume (with or without its float) or a no-op kind
OtherMessages ==
    { Msg("EffectVolume", MessageValue_float(7)),
      Msg("EffectVolume", MessageValue_none),
      Msg("PlaylistUpdated", MessageValue_none) }

IsOther(m) == m \in OtherMessages

send_other(m) ==
    /\ rx_alive
    /\ Len(sent) < MaxSends
    /\ Len(SelectSeq(sent, IsOther)) < MaxOther
    /\ chan' = Append(chan, m)
    /\ sent' = Append(sent, m)
    /\ UNCHANGED <<playlist, lock, tx_alive, rx_alive, mgrPc, rcvPc, rcvCur, send_result,
                   enqueued, applied, lastSet, pendingPause>>

NextCmd ==
    \/ Next
    \/ \E m \in OtherMessages : send_other(m)
    \/ receiver_volume
    \/ receiver_ignore

\* the program with every message kind on the channel
SpecCmd == Init /\ [][NextCmd]_vars

\* the threads are scheduled: the driver and the engine run on, the command
\* loop gets the lock sooner or later (parking_lot hands a contended lock over)
Fairness ==
    /\ WF_vars(manager_body)
    /\ WF_vars(manager_yield)
    /\ WF_vars(receive)
    /\ WF_vars(receive_hangup)
    /\ SF_vars(receiver_pause)
    /\ SF_vars(receiver_resume)
    /\ WF_vars(engine_tick)

FairSpec == Spec /\ Fairness

(* ------------------------------ claims -------------------------------- *)

IsPrefix(s, t) == Len(s) <= Len(t) /\ SubSeq(t, 1, Len(s)) = s

Session == Unwrap(playlist.sound_handle)

\* C1: whatever the threads do, list() returns the tracks of the completed
\* add_to_playlist calls in call order (so as many as there were calls), and
\* each step leaves the earlier result a prefix of the later one.
C1_ListIsEnqueuedInOrder ==
    [][ /\ list_returns' = enqueued'
        /\ Len(list_returns') = Len(enqueued')
        /\ IsPrefix(list_returns, list_returns') ]_vars

\* two different tracks were enqueued, the driver has started a session, a
\* command was handled, and list() can run
C1_Witness ==
    /\ Len(enqueued) = 2 /\ enqueued[1] # enqueued[2]
    /\ IsSome(playlist.sound_handle) /\ applied # <<>>
    /\ ENABLED list

\* the engine never failed so far: every enqueued file opens, play succeeded
EngineNeverFailed ==
    /\ \A i \in 1..Len(enqueued) : CanOpen(enqueued[i])
    /\ mgrPc # "play_failed"

\* C2: after add_to_playlist(t) with t a file the engine opens, eventually a
\* session exists and the total that get_time returns is the engine's
\* duration of t.  Stated for the runs in which the engine never fails: an
\* unopenable file enqueued or a failing manager.play discharges the claim.
C2_EnqueuedTrackGetsSession ==
    \A t \in {x \in Tracks : CanOpen(x)} :
        (playlist.playing = Some(t) /\ EngineNeverFailed)
          ~> ( \/ ~EngineNeverFailed
               \/ /\ IsSome(playlist.sound_handle)
                  /\ get_time_returns[1] = EngineDuration(t) )

\* the step with which the command loop has handled sent[k-1] and sent[k],
\* a pause_playback immediately followed by a resume_playback
HandledPauseThenResume ==
    /\ applied' # applied
    /\ Len(applied') >= 2 /\ Len(sent) >= Len(applied')
    /\ sent[Len(applied') - 1].kind = "PlaybackPause"
    /\ sent[Len(applied')].kind = "PlaybackResume"

\* C3 as stated: with a session in the playlist, once pause then resume are
\* both handled the session is Playing and paused is false.
C3_PauseResumeLeavesPlaying ==
    [][ ( HandledPauseThenResume /\ IsSome(playlist.sound_handle) )
          => ( Unwrap(playlist'.sound_handle).state = "Playing"
               /\ ~playlist'.paused ) ]_vars

\* C3 amended: the same for a session that has not reached the end of its
\* track (the engine does not report Stopped) when the resume is handled.
C3_PauseResumeLeavesPlayingUnlessStopped ==
    [][ ( HandledPauseThenResume
          /\ IsSome(playlist.sound_handle)
          /\ Session.state # "Stopped" )
          => ( Unwrap(playlist'.sound_handle).state = "Playing"
               /\ ~playlist'.paused ) ]_vars

\* pause then resume were sent and handled in that order on a session that
\* is still mid-track and plays
C3_Witness ==
    /\ Len(applied) = 2 /\ applied = sent
    /\ applied[1].kind = "PlaybackPause" /\ applied[2].kind = "PlaybackResume"
    /\ IsSome(playlist.sound_handle)
    /\ Session.state = "Playing" /\ Session.position = 1
    /\ ~playlist.paused

\* C4: in every reachable state, handling Pause twice leaves the playlist
\* (paused, the session, every other field) as handling it once does; the
\* same for Resume.
C4_PauseResumeIdempotent ==
    /\ PlaybackPause(PlaybackPause(playlist)) = PlaybackPause(playlist)
    /\ PlaybackResume(PlaybackResume(playlist)) = PlaybackResume(playlist)

\* two Pause commands in a row were handled on a session, which is paused
C4_Witness ==
    /\ Len(applied) = 2
    /\ applied[1].kind = "PlaybackPause" /\ applied[2].kind = "PlaybackPause"
    /\ IsSome(playlist.sound_handle) /\ Session.state = "Paused"
    /\ playlist.paused

\* C5: once the driver has failed to open a file, the lock is not left
\* with the dead thread, list, get_time and get_vol can all run and return,
\* and the queue holds every enqueued track.
C5_QueryableAfterOpenFailure ==
    mgrPc = "open_failed"
      => /\ lock = "free"
         /\ tx_alive => (ENABLED list /\ ENABLED get_time /\ ENABLED get_vol)
         /\ list_returns = enqueued

\* the driver died on the unopenable second track; the handle is alive and
\* the command loop has handled a command
C5_Witness ==
    /\ mgrPc = "open_failed"
    /\ tx_alive
    /\ enqueued = <<"a.mp3", "/nonexistent">>
    /\ applied # <<>>

\* C6: a file that does not open does not end the driver loop.
C6_DriverSurvivesOpenFailure == mgrPc # "open_failed"

ConsumerTerminated == rcvPc \in {"done", "panicked"}

SendOutcome(m) ==
    /\ send_result' = "Err" <=> ConsumerTerminated
    /\ ~ConsumerTerminated => (send_result' = "Ok" /\ chan' = Append(chan, m))
    /\ send_result' = "Err" => chan' = chan

\* C7: pause_playback and resume_playback can always run (they wait for
\* nothing); they return Err exactly when the command loop has ended, and
\* while it lives they return Ok and the command is appended to the channel.
C7_SendErrIffConsumerGone ==
    /\ [](tx_alive /\ Len(sent) < MaxSends
            => ENABLED pause_playback /\ ENABLED resume_playback)
    /\ [][ /\ pause_playback
              => SendOutcome(Msg("PlaybackPause", MessageValue_none))
           /\ resume_playback
              => SendOutcome(Msg("PlaybackResume", MessageValue_none)) ]_vars

\* a send was refused after the command loop died with the handle alive
C7_Witness ==
    /\ send_result = "Err"
    /\ rcvPc = "panicked"
    /\ tx_alive

\* the message the command loop holds and has not matched on yet
InHand == IF rcvPc = "handle" THEN <<rcvCur>> ELSE <<>>

\* C8: what the command loop has handled is a prefix of what was sent, in
\* send order; while the loop lives, the sent messages are exactly the
\* handled ones, then the one in hand, then the buffered ones: each once.
C8_HandledIsPrefixOfSent ==
    /\ IsPrefix(applied, sent)
    /\ rcvPc # "panicked" => sent = applied \o InHand \o chan

\* two different messages were sent and handled
C8_Witness ==
    /\ Len(applied) = 2 /\ applied = sent
    /\ applied[1] # applied[2]

Elapsed == get_time_returns[2]

\* C9 as stated: with a session, the elapsed time never decreases, never
\* goes back to 0, and does not change between the handling of a Pause and
\* the handling of the next Resume (while paused stays set).
C9_ElapsedFrozenWhilePaused ==
    [][ IsSome(playlist.sound_handle)
          => ( /\ Elapsed' >= Elapsed
               /\ (Elapsed # 0 => Elapsed' # 0)
               /\ (playlist.paused /\ playlist'.paused => Elapsed' = Elapsed) ) ]_vars

\* C9 amended: with a session, the elapsed time never decreases, never goes
\* back to 0 and never exceeds the session's position; the position never
\* decreases, does not move while paused stays set, and is not moved by
\* the handling of a Resume.
C9_ElapsedFollowsPosition ==
    [][ IsSome(playlist.sound_handle)
          => ( /\ Elapsed' >= Elapsed
               /\ (Elapsed # 0 => Elapsed' # 0)
               /\ Elapsed' <= Unwrap(playlist'.sound_handle).position
               /\ Unwrap(playlist'.sound_handle).position >= Session.position
               /\ (playlist.paused /\ playlist'.paused
                     => Unwrap(playlist'.sound_handle).position = Session.position)
               /\ (receiver_resume
                     => Unwrap(playlist'.sound_handle).position = Session.position) ) ]_vars

\* paused mid-track, the driver has refreshed the elapsed time, and the
\* Resume is next in the channel
C9_Witness ==
    /\ IsSome(playlist.sound_handle)
    /\ playlist.paused /\ Session.position = 1 /\ Elapsed = 1
    /\ chan # <<>> /\ Head(chan).kind = "PlaybackResume"

\* C10: after set_vol(v), with no later set_vol and no EffectVolume write,
\* get_vol returns v.
C10_GetVolReturnsLastSet ==
    IsSome(lastSet) => get_vol_returns = Unwrap(lastSet)

\* set_vol(50) stands, a session exists and was paused by a command, the
\* driver has refreshed the time, and get_vol can run
C10_Witness ==
    /\ lastSet = Some(50)
    /\ IsSome(playlist.sound_handle) /\ playlist.paused /\ Elapsed > 0
    /\ ENABLED get_vol

\* C11 as stated: once the Nyquist handle is dropped, the driver loop and
\* the command loop both keep running (the command loop has not returned).
C11_LoopsOutliveHandle ==
    ~tx_alive => /\ ~DriverDead => (ENABLED manager_body \/ ENABLED manager_yield)
                 /\ rcvPc # "done"

\* C11 amended: the drop does not stop the driver loop; the command loop
\* returns only after the drop, with the channel empty and every sent
\* command handled, and it does return then.
C11_DriverOutlivesHandleReceiverDrains ==
    /\ (~tx_alive /\ ~DriverDead) => (ENABLED manager_body \/ ENABLED manager_yield)
    /\ rcvPc = "done" => (~tx_alive /\ chan = <<>> /\ applied = sent)
    /\ (~tx_alive /\ rcvPc = "recv" /\ chan = <<>>) => ENABLED receive_hangup

\* the handle was dropped, the command loop handled two commands and
\* returned, and the driver is still refreshing a session
C11_Witness ==
    /\ ~tx_alive /\ rcvPc = "done" /\ Len(applied) = 2
    /\ IsSome(playlist.sound_handle) /\ ENABLED manager_body

C13_LockReleasedBeforeYield == mgrPc = "yield" => lock # "manager"

\* the step in which the driver stores a session
SessionCreated == ~IsSome(playlist.sound_handle) /\ IsSome(playlist'.sound_handle)

\* C14: when a Pause was handled after a track was selected and before the
\* driver created the session (and no Resume was handled since), the session
\* the driver creates is Paused and paused = true.
C14_PauseBeforeStartIsHonoured ==
    [][ (SessionCreated /\ pendingPause)
           => ( /\ Unwrap(playlist'.sound_handle).state = "Paused"
                /\ playlist'.paused ) ]_vars

C16_PausedFlagMatchesEngine ==
    (lock = "free" /\ IsSome(playlist.sound_handle))
        => (playlist.paused <=> Session.state = "Paused")

\* a session paused in mid-track by a handled Pause, the lock free
C16_Witness ==
    /\ lock = "free"
    /\ IsSome(playlist.sound_handle)
    /\ playlist.paused
    /\ Session.state = "Paused"
    /\ Session.position = 1
    /\ applied # <<>>

\* C17: whenever the lock is free and no session exists, current_duration
\* and current_time are both zero: the duration becomes non-zero only
\* together with the session being stored, also when manager.play fails.
C17_DurationOnlyWithSession ==
    (lock = "free" /\ ~IsSome(playlist.sound_handle))
        => (playlist.current_duration = 0 /\ playlist.current_time = 0)

\* C18: handling an EffectVolume whose payload has no float always panics
\* the command loop, with or without a session; handling one with a float
\* changes current_volume only if a session exists.
C18_MissingFloatAlwaysPanics ==
    [][ /\ (receiver_volume /\ ~IsSome(rcvCur.value.float))
           => (rcvPc' = "panicked")
        /\ (receiver_volume /\ IsSome(rcvCur.value.float)
                            /\ ~IsSome(playlist.sound_handle))
           => (playlist'.current_volume = playlist.current_volume) ]_vars

\* C19: whenever the lock is free, playing is None exactly when the queue
\* is empty, and otherwise playing is the last element of the queue, with
\* or without a session.
C19_PlayingIsLastEnqueued ==
    lock = "free" =>
        /\ (playlist.playing = None) <=> (playlist.queue = <<>>)
        /\ (playlist.queue # <<>>)
              => (playlist.playing = Some(playlist.queue[Len(playlist.queue)]))

\* a session plays the first track while a second, different track was
\* enqueued and is the selected one
C19_Witness ==
    /\ lock = "free"
    /\ IsSome(playlist.sound_handle)
    /\ Len(playlist.queue) = 2
    /\ Session.track = playlist.queue[1]
    /\ playlist.queue[2] # playlist.queue[1]
    /\ playlist.playing = Some(playlist.queue[2])

====
